---- MODULE Spec2Model ----
\* NFe XML validator (src/main.py): processar_xml, to_excel and the batch
\* loop of main, modelled as state machines.
\*
\* Text is a sequence of one-character strings (<<"0","7">> is '07').
\* Python's None is the one-element sequence None, which no text contains.
\* Quantities are integers (kg); float() is modelled on integer literals.
EXTENDS Integers, Sequences, FiniteSets, TLC

VARIABLES
  pc,            \* which step each state machine is at
  doc,           \* processar_xml: the (xml_content, filename) last passed in
  res,           \* processar_xml: the (DataFrame, erro) pair it returned
  arquivos,      \* main: arquivos_para_processar
  i,             \* main: number of documents the loop has processed
  dfs,           \* main: dfs
  erros,         \* main: erros
  df_final,      \* main: df_final
  edited_df,     \* main / to_excel: the record table being reported
  resumo,        \* to_excel: the 'Resumo' sheet
  narrativa      \* main: the figures of resumo_linhas

vars == <<pc, doc, res, arquivos, i, dfs, erros, df_final, edited_df, resumo, narrativa>>

\* ---------------------------------------------------------------- bounds
MaxDet == 3          \* line items per document (documents of DetDocs)
MaxDocs == 2         \* documents per batch
MaxRows == 2         \* rows of a reported record table

\* ------------------------------------------------------------------ text
None == <<"<None>">>

Digits == <<"0", "1", "2", "3", "4", "5", "6", "7", "8", "9">>
LowerChars == <<"b", "g", "k", "n", "o", "p", "t", "u", "x">>
UpperChars == <<"B", "G", "K", "N", "O", "P", "T", "U", "X">>
Whitespace == {" "}

IsDigitChar(c) == \E k \in 1..Len(Digits) : Digits[k] = c
DigitValue(c) == (CHOOSE k \in 1..Len(Digits) : Digits[k] = c) - 1

\* str.upper() / str.lower(), character by character
UpperChar(c) ==
  IF \E k \in 1..Len(LowerChars) : LowerChars[k] = c
  THEN UpperChars[CHOOSE k \in 1..Len(LowerChars) : LowerChars[k] = c]
  ELSE c
LowerChar(c) ==
  IF \E k \in 1..Len(UpperChars) : UpperChars[k] = c
  THEN LowerChars[CHOOSE k \in 1..Len(UpperChars) : UpperChars[k] = c]
  ELSE c
upper(s) == [k \in 1..Len(s) |-> UpperChar(s[k])]
lower(s) == [k \in 1..Len(s) |-> LowerChar(s[k])]

\* str.lstrip(chars), str.rstrip(), str.strip()
RECURSIVE lstrip(_, _)
lstrip(s, chars) ==
  IF s # <<>> /\ Head(s) \in chars THEN lstrip(Tail(s), chars) ELSE s
RECURSIVE rstrip(_, _)
rstrip(s, chars) ==
  IF s # <<>> /\ s[Len(s)] \in chars
  THEN rstrip(SubSeq(s, 1, Len(s) - 1), chars) ELSE s
strip(s) == rstrip(lstrip(s, Whitespace), Whitespace)

\* sub in s
Contains(sub, s) ==
  \E k \in 0..(Len(s) - Len(sub)) : SubSeq(s, k + 1, k + Len(sub)) = sub

\* str.isdigit()
isdigit(s) == s # <<>> /\ \A k \in 1..Len(s) : IsDigitChar(s[k])

\* the value of a string of decimal digits
RECURSIVE DecimalValue(_)
DecimalValue(s) ==
  IF s = <<>> THEN 0
  ELSE 10 * DecimalValue(SubSeq(s, 1, Len(s) - 1)) + DigitValue(s[Len(s)])

\* int(s): [raised, value]; int('') raises ValueError
int(s) ==
  LET t == strip(s) IN
  IF isdigit(t) THEN [raised |-> FALSE, value |-> DecimalValue(t)]
  ELSE [raised |-> TRUE, value |-> 0]

\* float(s) on integer literals: optional sign, digits, surrounding
\* whitespace; anything else raises ValueError
float(s) ==
  LET t == strip(s)
      neg == t # <<>> /\ Head(t) = "-"
      body == IF t # <<>> /\ Head(t) \in {"-", "+"} THEN Tail(t) ELSE t
  IN IF isdigit(body)
     THEN [raised |-> FALSE,
           value |-> IF neg THEN 0 - DecimalValue(body) ELSE DecimalValue(body)]
     ELSE [raised |-> TRUE, value |-> 0]

\* str(x) inside an f-string: None renders as 'None'
str(x) == IF x = None THEN <<"N", "o", "n", "e">> ELSE x

\* the decimal digits of a natural number
RECURSIVE NatDigits(_)
NatDigits(n) ==
  IF n < 10 THEN <<Digits[n + 1]>>
  ELSE NatDigits(n \div 10) \o <<Digits[(n % 10) + 1]>>

\* ------------------------------------------------------- classification
\* mapeamento_materiais: MATERIAL_MAPPING maps a material to (categoria,
\* subcategoria), NAO_EMBALAGENS to (categoria, tipo). "B" is in both.
MATERIAL_MAPPING ==
  (<<"P">> :> <<"Papel", "Papelão">>) @@ (<<"B">> :> <<"Plástico", "PET">>)
NAO_EMBALAGENS ==
  (<<"N">> :> <<"Madeira", "Pallet">>) @@ (<<"B">> :> <<"Metal", "Sucata">>)

\* the mapping lookup of processar_xml, with the packaging table consulted first
ClassificarEmbalagemPrimeiro(material) ==
  IF material \in DOMAIN MATERIAL_MAPPING
  THEN [categoria |-> MATERIAL_MAPPING[material][1],
        subcategoria |-> MATERIAL_MAPPING[material][2],
        status |-> "VALIDADO", observacoes |-> <<>>]
  ELSE IF material \in DOMAIN NAO_EMBALAGENS
  THEN [categoria |-> NAO_EMBALAGENS[material][1], subcategoria |-> "",
        status |-> "INVALIDADO",
        observacoes |-> <<"NÃO EMBALAGEM - ", NAO_EMBALAGENS[material][2]>>]
  ELSE [categoria |-> "", subcategoria |-> "",
        status |-> "VALIDADO", observacoes |-> <<>>]

\* "Lógica de Mapeamento"
Classificar(material) ==
  IF material \in DOMAIN NAO_EMBALAGENS
  THEN [categoria |-> NAO_EMBALAGENS[material][1], subcategoria |-> "",
        status |-> "INVALIDADO",
        observacoes |-> <<"NÃO EMBALAGEM - ", NAO_EMBALAGENS[material][2]>>]
  ELSE IF material \in DOMAIN MATERIAL_MAPPING
  THEN [categoria |-> MATERIAL_MAPPING[material][1],
        subcategoria |-> MATERIAL_MAPPING[material][2],
        status |-> "VALIDADO", observacoes |-> <<>>]
  ELSE [categoria |-> "", subcategoria |-> "",
        status |-> "VALIDADO", observacoes |-> <<>>]

\* ---------------------------------------------------------- the XML tree
\* A node is [found, text]: found = FALSE when find() returns None, text =
\* None when the element is empty. An element carries the nodes read from it.
Absent == [found |-> FALSE, text |-> None]
Empty == [found |-> TRUE, text |-> None]
Node(t) == [found |-> TRUE, text |-> t]

\* get_text(element, tag_path, ns, default): element is TRUE unless it is
\* None, node is what element.find(tag_path) yields
get_text(element, node, default) ==
  IF ~element THEN default
  ELSE IF node.found /\ node.text # None THEN node.text
  ELSE default

\* bool(element) of ElementTree: None is false, an Element is true only
\* when it has child elements
ElementTruth(e) == e.found /\ e.children > 0

\* ------------------------------------------------------------ processar_xml
ErroEntry(filename, msg, args) ==
  [Arquivo |-> filename, Erro |-> [msg |-> msg, args |-> args]]

Falha(filename, msg, args) ==
  [df |-> <<>>, erro |-> <<ErroEntry(filename, msg, args)>>]

InvalidLiteral == <<"invalid literal for int() with base 10: ''">>

\* int(nNF_str.lstrip('0')) if nNF_str.isdigit() else 0
numero_nota(nNF_str) ==
  IF isdigit(nNF_str) THEN int(lstrip(nNF_str, {"0"}))
  ELSE [raised |-> FALSE, value |-> 0]

\* quantidade without the ton -> kg conversion
quantidade_sem_conversao(qCom_str, unidade) ==
  IF float(qCom_str).raised THEN 0 ELSE float(qCom_str).value

\* float(qCom_str), 0.0 on ValueError, times 1000 when 'ton' in unidade
quantidade(qCom_str, unidade) ==
  LET q == IF float(qCom_str).raised THEN 0 ELSE float(qCom_str).value
  IN IF Contains(<<"t", "o", "n">>, unidade) THEN q * 1000 ELSE q

\* the record built for one <det> whose <prod> exists
dados_nota(prod, filename, nota) ==
  LET material == strip(upper(get_text(TRUE, prod.xProd, <<>>)))
      unidade == lower(strip(get_text(TRUE, prod.uCom, <<>>)))
      q == quantidade(get_text(TRUE, prod.qCom, <<"0">>), unidade)
      c == Classificar(material)
  IN [CATEGORIA |-> c.categoria, SUBCATEGORIA |-> c.subcategoria,
      MATERIAL |-> material,
      QUANTIDADE |-> IF c.status = "VALIDADO" THEN q ELSE 0,
      NOME_DO_ARQUIVO |-> filename, NUMERO_NOTA |-> nota,
      UNIDADE |-> unidade, STATUS |-> c.status,
      OBSERVACOES |-> c.observacoes,
      QUANTIDADE_NAO_VALIDADA |-> IF c.status # "VALIDADO" THEN q ELSE 0]

\* the loop over detalhes, stopping at the first <det> without <prod>
RECURSIVE dados_ate_falha(_, _, _)
dados_ate_falha(detalhes, filename, nota) ==
  IF detalhes = <<>> THEN <<>>
  ELSE IF ~Head(detalhes).prod.found THEN <<>>
  ELSE <<dados_nota(Head(detalhes).prod, filename, nota)>>
       \o dados_ate_falha(Tail(detalhes), filename, nota)

\* for det in detalhes: a <det> without <prod> is skipped (continue)
RECURSIVE dados(_, _, _)
dados(detalhes, filename, nota) ==
  IF detalhes = <<>> THEN <<>>
  ELSE IF ~Head(detalhes).prod.found
  THEN dados(Tail(detalhes), filename, nota)
  ELSE <<dados_nota(Head(detalhes).prod, filename, nota)>>
       \o dados(Tail(detalhes), filename, nota)

\* the status test with the comparison inverted (cStat == '100')
StatusInvalidoInvertido(protNFe) ==
  ElementTruth(protNFe) /\ get_text(TRUE, protNFe.cStat, None) = <<"1", "0", "0">>

\* if protNFe: ... if cStat != '100'
StatusInvalido(protNFe) ==
  ElementTruth(protNFe) /\ get_text(TRUE, protNFe.cStat, None) # <<"1", "0", "0">>

\* processar_xml(xml_content, filename): [df, erro]; erro is <<>> for None
\* and <<entry>> for a dict
processar_xml(xml_content, filename) ==
  IF ~xml_content.wellformed
  THEN Falha(filename, "Estrutura XML inválida ou corrompida.", <<>>)
  ELSE IF StatusInvalido(xml_content.protNFe)
  THEN Falha(filename, "Status Inválido",
             <<str(get_text(TRUE, xml_content.protNFe.cStat, None)),
               str(get_text(TRUE, xml_content.protNFe.xMotivo, None))>>)
  ELSE IF ~xml_content.infNFe.found
  THEN Falha(filename, "Tag <infNFe> não encontrada.", <<>>)
  ELSE IF xml_content.infNFe.det = <<>>
  THEN Falha(filename, "Nenhum produto (tag <det>) encontrado na nota.", <<>>)
  ELSE
    LET inf == xml_content.infNFe
        nota == numero_nota(get_text(inf.ide, inf.nNF, <<"0">>))
    IN IF nota.raised
       THEN Falha(filename, "Erro de processamento Python", <<InvalidLiteral>>)
       ELSE [df |-> dados(inf.det, filename, nota.value), erro |-> <<>>]

\* ------------------------------------------------------------- documents
Names == {"a.xml", "lote.zip/b.xml"}

NoProd == [prod |-> [found |-> FALSE, xProd |-> Absent, qCom |-> Absent, uCom |-> Absent]]
Det(x, q, u) == [prod |-> [found |-> TRUE, xProd |-> x, qCom |-> q, uCom |-> u]]

\* xProd: packaging, non-packaging, in both tables, unmapped, missing
XProds == {Node(<<"p">>), Node(<<" ", "n">>), Node(<<"b", " ">>), Node(<<"x">>), Absent}
\* qCom: a number, a malformed literal, missing
QComs == {Node(<<"2">>), Node(<<"k", "g">>), Absent}
\* uCom: tonnes, kilograms
UComs == {Node(<<"T", "O", "N">>), Node(<<"k", "g">>)}

Items == {NoProd} \cup {Det(x, q, u) : x \in XProds, q \in QComs, u \in UComs}
DetItems ==
  {NoProd, Det(Node(<<"p">>), Node(<<"2">>), Node(<<"k", "g">>)),
   Det(Node(<<" ", "n">>), Node(<<"2">>), Node(<<"T", "O", "N">>)),
   Det(Node(<<"b", " ">>), Node(<<"k", "g">>), Node(<<"k", "g">>))}

SeqsUpTo(S, n) == UNION {[1..k -> S] : k \in 0..n}

NoProt == [found |-> FALSE, children |-> 0, cStat |-> Absent, xMotivo |-> Absent]
Prot(c, m) == [found |-> TRUE, children |-> 1, cStat |-> c, xMotivo |-> m]
\* no protNFe, an empty protNFe, infProt without cStat, with an empty cStat,
\* authorized, cancelled
Prots ==
  {NoProt,
   [found |-> TRUE, children |-> 0, cStat |-> Absent, xMotivo |-> Absent],
   Prot(Absent, Absent), Prot(Empty, Node(<<"x">>)),
   Prot(Node(<<"1", "0", "0">>), Node(<<"o", "k">>)),
   Prot(Node(<<"1", "0", "1">>), Node(<<"x">>))}

NoInf == [found |-> FALSE, ide |-> FALSE, nNF |-> Absent, det |-> <<>>]
Inf(ide, nNF, det) == [found |-> TRUE, ide |-> ide, nNF |-> nNF, det |-> det]
\* <ide> missing; nNF missing, '0', '000', '007', 'x', '12'
Ides ==
  {<<FALSE, Absent>>, <<TRUE, Absent>>, <<TRUE, Node(<<"0">>)>>,
   <<TRUE, Node(<<"0", "0", "0">>)>>, <<TRUE, Node(<<"0", "0", "7">>)>>,
   <<TRUE, Node(<<"x">>)>>, <<TRUE, Node(<<"1", "2">>)>>}

Xml(prot, inf) == [wellformed |-> TRUE, protNFe |-> prot, infNFe |-> inf]
Corrupt == [wellformed |-> FALSE, protNFe |-> NoProt, infNFe |-> NoInf]

\* every header shape, with at most one line item
HeaderDocs ==
  {Corrupt}
  \cup {Xml(p, NoInf) : p \in Prots}
  \cup {Xml(p, Inf(h[1], h[2], d)) : p \in Prots, h \in Ides, d \in SeqsUpTo(Items, 1)}
\* a plain header, with up to MaxDet line items
DetDocs ==
  {Xml(NoProt, Inf(TRUE, Node(<<"1", "2">>), d)) : d \in SeqsUpTo(DetItems, MaxDet)}
Docs == HeaderDocs \cup DetDocs

\* the documents of a batch: corrupt, cancelled, nNF '0', two line items,
\* a line item without <prod> after a good one, only a line item without <prod>
BatchDocs ==
  {Corrupt,
   Xml(Prot(Node(<<"1", "0", "1">>), Node(<<"x">>)), Inf(TRUE, Node(<<"7">>), <<NoProd>>)),
   Xml(NoProt, Inf(TRUE, Node(<<"0">>), <<Det(Node(<<"p">>), Node(<<"2">>), Node(<<"k", "g">>))>>)),
   Xml(NoProt, Inf(TRUE, Node(<<"0", "0", "7">>),
       <<Det(Node(<<"p">>), Node(<<"2">>), Node(<<"k", "g">>)),
         Det(Node(<<" ", "n">>), Node(<<"2">>), Node(<<"T", "O", "N">>))>>)),
   Xml(Prot(Node(<<"1", "0", "0">>), Node(<<"o", "k">>)), Inf(TRUE, Node(<<"1", "2">>),
       <<Det(Node(<<"x">>), Node(<<"2">>), Node(<<"k", "g">>)), NoProd>>)),
   Xml(NoProt, Inf(TRUE, Node(<<"1", "2">>), <<NoProd>>))}
BatchInputs == {[conteudo |-> c, nome |-> f] : c \in BatchDocs, f \in Names}

\* ---------------------------------------------------------------- reports
\* df[col].sum()
RECURSIVE SumCol(_, _)
SumCol(df, col) ==
  IF df = <<>> THEN 0 ELSE Head(df)[col] + SumCol(Tail(df), col)

\* (df['QUANTIDADE'] + df['QUANTIDADE NÃO VALIDADA']).sum()
RECURSIVE SumBoth(_)
SumBoth(df) ==
  IF df = <<>> THEN 0
  ELSE Head(df).QUANTIDADE + Head(df).QUANTIDADE_NAO_VALIDADA + SumBoth(Tail(df))

Abs(n) == IF n < 0 THEN 0 - n ELSE n

\* a / b rounded to the nearest integer, ties to even (a >= 0, b > 0)
RoundHalfEven(a, b) ==
  LET q == a \div b
      r == a % b
  IN IF 2 * r < b THEN q
     ELSE IF 2 * r > b THEN q + 1
     ELSE IF q % 2 = 0 THEN q ELSE q + 1

\* f"{x:.2f}%" for x given in hundredths
Format2f(cents, negative) ==
  (IF negative THEN <<"-">> ELSE <<>>)
  \o NatDigits(cents \div 100)
  \o <<".", Digits[((cents \div 10) % 10) + 1], Digits[(cents % 10) + 1], "%">>

\* f"{num / den * 100:.2f}%"; numpy division by zero yields nan or inf
FormatPercent(num, den) ==
  IF den = 0
  THEN IF num = 0 THEN <<"n", "a", "n", "%">>
       ELSE IF num > 0 THEN <<"i", "n", "f", "%">>
       ELSE <<"-", "i", "n", "f", "%">>
  ELSE Format2f(RoundHalfEven(Abs(num) * 10000, Abs(den)),
                (num < 0) # (den < 0) /\ num # 0)

\* the 'Percentual Validado' cell with the guard admitting a zero total
PercentualResumoZero(df) ==
  LET v == SumCol(df, "QUANTIDADE")
      t == SumCol(df, "QUANTIDADE") + SumCol(df, "QUANTIDADE_NAO_VALIDADA")
  IN IF t >= 0 THEN [texto |-> FormatPercent(v, t), divided |-> TRUE]
     ELSE [texto |-> <<"0", ".", "0", "0", "%">>, divided |-> FALSE]

\* the 'Percentual Validado' cell of to_excel
PercentualResumo(df) ==
  LET v == SumCol(df, "QUANTIDADE")
      t == SumCol(df, "QUANTIDADE") + SumCol(df, "QUANTIDADE_NAO_VALIDADA")
  IN IF t > 0 THEN [texto |-> FormatPercent(v, t), divided |-> TRUE]
     ELSE [texto |-> <<"0", ".", "0", "0", "%">>, divided |-> FALSE]

\* the 'Resumo' sheet of to_excel: the 'Valor' column by 'Métrica'
to_excel(df) ==
  [Total_Recebido |-> SumCol(df, "QUANTIDADE"),
   Total_Validado |-> SumCol(df, "QUANTIDADE"),
   Total_Invalidado |-> SumCol(df, "QUANTIDADE_NAO_VALIDADA"),
   Percentual_Validado |-> PercentualResumo(df)]

\* percentual and its line of resumo_linhas in main; totals are kept in kg,
\* the code divides both by 1000 before taking the quotient
PercentualNarrativa(df) ==
  LET total_recebido == SumBoth(df)
      total_validado == SumCol(df, "QUANTIDADE")
  IN IF total_recebido > 0
     THEN [texto |-> FormatPercent(total_validado, total_recebido), divided |-> TRUE]
     ELSE [texto |-> Format2f(0, FALSE), divided |-> FALSE]

\* pd.concat(dfs, ignore_index=True), most recent table first
RECURSIVE concat_invertido(_)
concat_invertido(tables) ==
  IF tables = <<>> THEN <<>> ELSE concat_invertido(Tail(tables)) \o Head(tables)

\* pd.concat(dfs, ignore_index=True)
RECURSIVE concat(_)
concat(tables) ==
  IF tables = <<>> THEN <<>> ELSE Head(tables) \o concat(Tail(tables))

\* ---------------------------------------------------------------- actions
NoResumo ==
  [Total_Recebido |-> 0, Total_Validado |-> 0, Total_Invalidado |-> 0,
   Percentual_Validado |-> [texto |-> <<>>, divided |-> FALSE]]
NoNarrativa ==
  [lidos |-> 0, de |-> 0, com_erro |-> 0,
   total_recebido |-> 0, total_validado |-> 0,
   percentual |-> [texto |-> <<>>, divided |-> FALSE]]
NoDoc == [conteudo |-> Corrupt, nome |-> ""]
NoRes == [df |-> <<>>, erro |-> <<>>]

\* one call of processar_xml
Processar ==
  /\ pc = "idle"
  /\ \E c \in Docs, f \in Names :
       /\ doc' = [conteudo |-> c, nome |-> f]
       /\ res' = processar_xml(c, f)
  /\ pc' = "returned"
  /\ UNCHANGED <<arquivos, i, dfs, erros, df_final, edited_df, resumo, narrativa>>

\* one iteration of the loop with df_temp appended even when it is empty
LoopStepSemFiltro ==
  /\ pc = "loop"
  /\ i < Len(arquivos)
  /\ LET r == processar_xml(arquivos[i + 1].conteudo, arquivos[i + 1].nome)
     IN /\ erros' = IF r.erro # <<>> THEN Append(erros, r.erro[1]) ELSE erros
        /\ dfs' = Append(dfs, r.df)
  /\ i' = i + 1
  /\ UNCHANGED <<pc, doc, res, arquivos, df_final, edited_df, resumo, narrativa>>

\* one iteration of the loop of main
LoopStep ==
  /\ pc = "loop"
  /\ i < Len(arquivos)
  /\ LET r == processar_xml(arquivos[i + 1].conteudo, arquivos[i + 1].nome)
     IN /\ erros' = IF r.erro # <<>> THEN Append(erros, r.erro[1]) ELSE erros
        /\ dfs' = IF r.df # <<>> THEN Append(dfs, r.df) ELSE dfs
  /\ i' = i + 1
  /\ UNCHANGED <<pc, doc, res, arquivos, df_final, edited_df, resumo, narrativa>>

\* after the loop: if dfs, df_final = pd.concat(dfs) goes to the editor,
\* which hands it on as edited_df
Concat ==
  /\ pc = "loop"
  /\ i = Len(arquivos)
  /\ IF dfs # <<>>
     THEN /\ df_final' = concat(dfs)
          /\ edited_df' = concat(dfs)
          /\ pc' = "report"
     ELSE /\ UNCHANGED <<df_final, edited_df>>
          /\ pc' = "done"
  /\ UNCHANGED <<doc, res, arquivos, i, dfs, erros, resumo, narrativa>>

\* excel_data = to_excel(edited_df)
ToExcel ==
  /\ pc = "report"
  /\ resumo' = to_excel(edited_df)
  /\ pc' = "excel"
  /\ UNCHANGED <<doc, res, arquivos, i, dfs, erros, df_final, edited_df, narrativa>>

\* the narrative summary of main
Narrativa ==
  /\ pc = "excel"
  /\ narrativa' =
       [lidos |-> Len(dfs), de |-> Len(arquivos), com_erro |-> Len(erros),
        total_recebido |-> SumBoth(edited_df),
        total_validado |-> SumCol(edited_df, "QUANTIDADE"),
        percentual |-> PercentualNarrativa(edited_df)]
  /\ pc' = "done"
  /\ UNCHANGED <<doc, res, arquivos, i, dfs, erros, df_final, edited_df, resumo>>

\* --------------------------------------------------------- specifications
Rest ==
  /\ doc = NoDoc /\ res = NoRes
  /\ i = 0 /\ dfs = <<>> /\ erros = <<>> /\ df_final = <<>>
  /\ resumo = NoResumo /\ narrativa = NoNarrativa

\* processar_xml on one document
InitDoc == pc = "idle" /\ arquivos = <<>> /\ edited_df = <<>> /\ Rest
NextDoc == Processar
SpecDoc == InitDoc /\ [][NextDoc]_vars

\* main on a batch of documents
InitBatch ==
  /\ pc = "loop"
  /\ arquivos \in SeqsUpTo(BatchInputs, MaxDocs) \ {<<>>}
  /\ edited_df = <<>>
  /\ Rest
NextBatch == LoopStep \/ Concat \/ ToExcel \/ Narrativa
SpecBatch == InitBatch /\ [][NextBatch]_vars

\* the reports on a record table as the editor may hand it over
Qtys == {-1, 0, 1, 2}
Rows == [QUANTIDADE : Qtys, QUANTIDADE_NAO_VALIDADA : Qtys]
InitReport ==
  /\ pc = "report"
  /\ arquivos = <<>>
  /\ edited_df \in SeqsUpTo(Rows, MaxRows)
  /\ Rest
NextReport == ToExcel \/ Narrativa
SpecReport == InitReport /\ [][NextReport]_vars

\* ------------------------------------------------------------ properties
\* What the properties expect, read off the raw document.
HasProd(d) == d.prod.found
GoodDet(x) == SelectSeq(x.infNFe.det, HasProd)
CarriesStatus(p) == p.found /\ p.cStat.found /\ p.cStat.text # None
ValidatorMsgs ==
  {"Status Inválido", "Tag <infNFe> não encontrada.",
   "Nenhum produto (tag <det>) encontrado na nota."}
IsStatusErro(r) == r.erro # <<>> /\ r.erro[1].Erro.msg = "Status Inválido"
ExpectedMaterial(n) ==
  IF ~n.found THEN <<>>
  ELSE IF n.text = <<"p">> THEN <<"P">>
  ELSE IF n.text = <<" ", "n">> THEN <<"N">>
  ELSE IF n.text = <<"b", " ">> THEN <<"B">>
  ELSE <<"X">>
ExpectedQCom(n) == IF n.found /\ n.text = <<"2">> THEN 2 ELSE 0
ExpectedTon(n) ==
  n.found /\ \E k \in 1..(Len(n.text) - 2) :
    /\ n.text[k] \in {"t", "T"}
    /\ n.text[k + 1] \in {"o", "O"}
    /\ n.text[k + 2] \in {"n", "N"}
ExpectedQuantity(d) ==
  IF ExpectedTon(d.prod.uCom) THEN ExpectedQCom(d.prod.qCom) * 1000
  ELSE ExpectedQCom(d.prod.qCom)
ExpectedNota(inf) ==
  IF ~inf.ide \/ ~inf.nNF.found THEN 0
  ELSE IF inf.nNF.text \in {<<"0", "0", "7">>, <<"7">>} THEN 7
  ELSE IF inf.nNF.text = <<"1", "2">> THEN 12
  ELSE 0
PassesValidator(x) ==
  /\ x.wellformed
  /\ ~(CarriesStatus(x.protNFe) /\ x.protNFe.cStat.text # <<"1", "0", "0">>)
  /\ x.infNFe.found
  /\ x.infNFe.det # <<>>

\* C1: a parseable document whose protocol section carries a status code other
\* than '100' yields exactly one ErrorEntry with that code and reason and no
\* records; with status '100' and at least one line item the validator does
\* not reject it.
C1_StatusGate ==
  (pc = "returned" /\ doc.conteudo.wellformed) =>
    LET p == doc.conteudo.protNFe
        inf == doc.conteudo.infNFe
    IN /\ (CarriesStatus(p) /\ p.cStat.text # <<"1", "0", "0">>) =>
            /\ res.df = <<>>
            /\ res.erro =
                 <<[Arquivo |-> doc.nome,
                    Erro |-> [msg |-> "Status Inválido",
                              args |-> <<p.cStat.text,
                                         IF p.xMotivo.found /\ p.xMotivo.text # None
                                         THEN p.xMotivo.text
                                         ELSE <<"N", "o", "n", "e">>>>]]>>
       /\ (CarriesStatus(p) /\ p.cStat.text = <<"1", "0", "0">>
           /\ inf.found /\ inf.det # <<>>) =>
            (res.erro = <<>> \/ res.erro[1].Erro.msg \notin ValidatorMsgs)

C1_Witness ==
  /\ pc = "returned"
  /\ CarriesStatus(doc.conteudo.protNFe)
  /\ doc.conteudo.protNFe.cStat.text = <<"1", "0", "1">>
  /\ doc.conteudo.infNFe.det # <<>>
  /\ Len(res.erro) = 1
  /\ res.df = <<>>

\* C2: in every record QUANTIDADE and QUANTIDADE NÃO VALIDADA are never both
\* non-zero, their sum is the parsed qCom (0 when malformed), times 1000 when
\* the unit contains 'ton', and the status alone decides which field holds it.
C2_QuantitySplit ==
  (pc = "returned" /\ res.erro = <<>>) =>
    /\ Len(res.df) = Len(GoodDet(doc.conteudo))
    /\ \A k \in 1..Len(res.df) :
         LET r == res.df[k]
             d == GoodDet(doc.conteudo)[k]
         IN /\ ~(r.QUANTIDADE # 0 /\ r.QUANTIDADE_NAO_VALIDADA # 0)
            /\ r.QUANTIDADE + r.QUANTIDADE_NAO_VALIDADA = ExpectedQuantity(d)
            /\ (r.STATUS = "VALIDADO") => r.QUANTIDADE_NAO_VALIDADA = 0
            /\ (r.STATUS # "VALIDADO") => r.QUANTIDADE = 0

C2_Witness ==
  /\ pc = "returned"
  /\ \E k \in 1..Len(res.df) :
       /\ res.df[k].STATUS = "INVALIDADO"
       /\ res.df[k].QUANTIDADE = 0
       /\ res.df[k].QUANTIDADE_NAO_VALIDADA = 2000

C4_TotalRecebido ==
  (pc \in {"excel", "done"}) =>
    /\ resumo.Total_Validado = SumCol(edited_df, "QUANTIDADE")
    /\ resumo.Total_Invalidado = SumCol(edited_df, "QUANTIDADE_NAO_VALIDADA")
    /\ resumo.Total_Recebido = resumo.Total_Validado + resumo.Total_Invalidado

\* C5: a document that passes the validator yields its records, each numbered
\* with the integer value of nNF (0 when nNF is absent or not numeric); no
\* nNF makes it yield an ErrorEntry.
C5_NumeroNota ==
  (pc = "returned" /\ PassesValidator(doc.conteudo)) =>
    /\ res.erro = <<>>
    /\ \A k \in 1..Len(res.df) :
         res.df[k].NUMERO_NOTA = ExpectedNota(doc.conteudo.infNFe)

\* What each document of the batch yields when processed alone.
Alone(k) == processar_xml(arquivos[k].conteudo, arquivos[k].nome)
RECURSIVE RecordsAlone(_)
RecordsAlone(n) == IF n = 0 THEN <<>> ELSE RecordsAlone(n - 1) \o Alone(n).df
RECURSIVE ErrosAlone(_)
ErrosAlone(n) == IF n = 0 THEN <<>> ELSE ErrosAlone(n - 1) \o Alone(n).erro

\* C6: after the loop the record table is the concatenation, in document
\* order, of the records each document yields alone, the error list is the
\* in-order list of their ErrorEntries, and every document was processed.
C6_BatchFold ==
  /\ (pc = "loop") => erros = ErrosAlone(i)
  /\ (pc # "loop") =>
       /\ i = Len(arquivos)
       /\ df_final = RecordsAlone(Len(arquivos))
       /\ erros = ErrosAlone(Len(arquivos))

C6_Witness ==
  /\ pc = "done"
  /\ Len(arquivos) = 2
  /\ ~arquivos[1].conteudo.wellformed
  /\ Len(erros) = 1
  /\ erros[1].Arquivo = arquivos[1].nome
  /\ Len(df_final) = 2
  /\ df_final[1].NOME_DO_ARQUIVO = arquivos[2].nome

\* the document without its line items that have no <prod>
WithoutBadDet(x) ==
  [x EXCEPT !.infNFe = [x.infNFe EXCEPT !.det = GoodDet(x)]]

\* C7: a line item that cannot be built (no <prod>) is skipped alone: the
\* document yields what it yields without that item, so a document that is
\* otherwise processed without error returns the records of all its other
\* line items, in order, and no ErrorEntry.
C7_SkipLineItem ==
  (pc = "returned" /\ doc.conteudo.wellformed /\ GoodDet(doc.conteudo) # <<>>) =>
    LET without == processar_xml(WithoutBadDet(doc.conteudo), doc.nome)
    IN /\ res = without
       /\ (without.erro = <<>>) =>
            /\ res.erro = <<>>
            /\ Len(res.df) = Len(GoodDet(doc.conteudo))
            /\ \A k \in 1..Len(res.df) :
                 res.df[k].MATERIAL =
                   ExpectedMaterial(GoodDet(doc.conteudo)[k].prod.xProd)

C7_Witness ==
  /\ pc = "returned"
  /\ Len(doc.conteudo.infNFe.det) = 3
  /\ doc.conteudo.infNFe.det[1].prod.found
  /\ ~doc.conteudo.infNFe.det[2].prod.found
  /\ doc.conteudo.infNFe.det[3].prod.found
  /\ res.erro = <<>>
  /\ Len(res.df) = 2
  /\ res.df[1].MATERIAL = <<"P">>
  /\ res.df[2].MATERIAL = <<"N">>

\* C8: a document whose protocol section exists but whose status code node is
\* absent or empty is not turned into an authorization ErrorEntry.
C8_MissingStatus ==
  (pc = "returned" /\ doc.conteudo.wellformed
   /\ doc.conteudo.protNFe.found /\ ~CarriesStatus(doc.conteudo.protNFe)) =>
    ~IsStatusErro(res)

\* C9: when the total received mass is zero, the summary sheet and the
\* narrative both render the percentage as '0.00%' and neither divides.
C9_ZeroGuard ==
  (pc = "done"
   /\ SumCol(edited_df, "QUANTIDADE") + SumCol(edited_df, "QUANTIDADE_NAO_VALIDADA") = 0) =>
    /\ resumo.Percentual_Validado.texto = <<"0", ".", "0", "0", "%">>
    /\ ~resumo.Percentual_Validado.divided
    /\ narrativa.percentual.texto = <<"0", ".", "0", "0", "%">>
    /\ ~narrativa.percentual.divided

C9_Witness ==
  /\ pc = "done"
  /\ Len(edited_df) = 2
  /\ edited_df[1].QUANTIDADE = 1
  /\ edited_df[2].QUANTIDADE_NAO_VALIDADA = -1
  /\ SumCol(edited_df, "QUANTIDADE") + SumCol(edited_df, "QUANTIDADE_NAO_VALIDADA") = 0
  /\ resumo.Percentual_Validado.texto = <<"0", ".", "0", "0", "%">>
  /\ narrativa.percentual.texto = <<"0", ".", "0", "0", "%">>

\* C10 as stated: every document yields exactly one ErrorEntry and no records,
\* or no ErrorEntry and at least one record, so after the loop
\* len(dfs) + len(erros) is the number of documents.
C10_ExactlyOne ==
  /\ \A k \in 1..i :
       \/ Len(Alone(k).erro) = 1 /\ Alone(k).df = <<>>
       \/ Alone(k).erro = <<>> /\ Alone(k).df # <<>>
  /\ (pc # "loop") => Len(dfs) + Len(erros) = Len(arquivos)

\* documents accepted by the validator whose line items all lack <prod>
AllDetWithoutProd(x) ==
  /\ x.wellformed /\ x.infNFe.found /\ x.infNFe.det # <<>>
  /\ GoodDet(x) = <<>>
Silent(n) ==
  {k \in 1..n : AllDetWithoutProd(arquivos[k].conteudo) /\ Alone(k).erro = <<>>}

\* C10 amended: a document never yields both an ErrorEntry and records; it
\* yields one ErrorEntry and no records, or records and no ErrorEntry, or
\* neither when every one of its line items lacks <prod>; len(dfs) +
\* len(erros) is the number of documents processed less those of the last kind.
C10_AtMostOne ==
  /\ \A k \in 1..i :
       \/ Len(Alone(k).erro) = 1 /\ Alone(k).df = <<>>
       \/ Alone(k).erro = <<>> /\ Alone(k).df # <<>>
       \/ /\ Alone(k).erro = <<>> /\ Alone(k).df = <<>>
          /\ AllDetWithoutProd(arquivos[k].conteudo)
  /\ Len(dfs) + Len(erros) = i - Cardinality(Silent(i))
  /\ (pc # "loop") => i = Len(arquivos)

C10_Witness ==
  /\ pc = "done"
  /\ Len(arquivos) = 2
  /\ AllDetWithoutProd(arquivos[1].conteudo)
  /\ Alone(1).erro = <<>> /\ Alone(1).df = <<>>
  /\ Len(dfs) = 1
  /\ erros = <<>>

====
